---- MODULE Spec2Model ----
(***************************************************************************)
(* A model of the JSON parser of src/src/lib.rs.  The parser is a set of   *)
(* pure functions from an input text to either (remainder, value) or an    *)
(* error that carries the remainder at which the failing parser stood.     *)
(* A text is a sequence of one-character strings.  The combinators of the  *)
(* nom library (char, tag, is_not, digit1, multispace0, escaped, alt,      *)
(* tuple, delimited, preceded, recognize, separated_list0) are written out *)
(* at the places where lib.rs uses them, with the behaviour of nom 6/7     *)
(* (the versions whose combinators are called as functions, as lib.rs      *)
(* does).                                                                   *)
(***************************************************************************)
EXTENDS Integers, Sequences, FiniteSets, TLC

VARIABLES input, expected, result

vars == <<input, expected, result>>

----------------------------------------------------------------------------
(* Results: IResult<&str, T>.  maxd and strict are bookkeeping of the      *)
(* recursion: the deepest parse_value call made below this call, and       *)
(* whether every parse_value call made by a composite was on an input      *)
(* strictly shorter than the composite's own.                              *)

Ok(rest, val) ==
    [ok |-> TRUE, rest |-> rest, val |-> val, maxd |-> 0, strict |-> TRUE]

Err(rest, kind) ==
    [ok |-> FALSE, rest |-> rest, val |-> <<"Error", kind>>, maxd |-> 0, strict |-> TRUE]

Max(a, b) == IF a >= b THEN a ELSE b

\* The call-stack capacity, in nested parse_value calls.
StackLimit == 8

----------------------------------------------------------------------------
(* JsonValue, lib.rs 11-19 *)

Object(pairs) == <<"Object", pairs>>
Array(items)  == <<"Array", items>>
String(s)     == <<"String", s>>
Number(n)     == <<"Number", n>>
Boolean(b)    == <<"Boolean", b>>
Null          == <<"Null">>

----------------------------------------------------------------------------
(* Character classes and the leaf combinators *)

Whitespace == {" ", "\t", "\n", "\r"}

Digit == {"0", "1", "2", "3", "4", "5", "6", "7", "8", "9"}

DigitValue(c) ==
    CASE c = "0" -> 0 [] c = "1" -> 1 [] c = "2" -> 2 [] c = "3" -> 3
      [] c = "4" -> 4 [] c = "5" -> 5 [] c = "6" -> 6 [] c = "7" -> 7
      [] c = "8" -> 8 [] c = "9" -> 9

\* The length of the longest prefix of s whose characters are all in set.
RECURSIVE PrefixLen(_, _)
PrefixLen(s, set) ==
    IF s # <<>> /\ Head(s) \in set THEN 1 + PrefixLen(Tail(s), set) ELSE 0

\* The length of the longest prefix of s with no character in set.
RECURSIVE PrefixLenNot(_, _)
PrefixLenNot(s, set) ==
    IF s # <<>> /\ Head(s) \notin set THEN 1 + PrefixLenNot(Tail(s), set) ELSE 0

Drop(s, n) == SubSeq(s, n + 1, Len(s))

Take(s, n) == SubSeq(s, 1, n)

\* space0: zero or more of space and tab only.
space0(s) == Drop(s, PrefixLen(s, {" ", "\t"}))

\* multispace0: zero or more of space, tab, newline, carriage return.
multispace0(s) == Drop(s, PrefixLen(s, Whitespace))

\* char(c)
char(c, s) ==
    IF s # <<>> /\ Head(s) = c THEN Ok(Tail(s), c) ELSE Err(s, "Char")

\* tag(t)
tag(t, s) ==
    IF Len(s) >= Len(t) /\ Take(s, Len(t)) = t THEN Ok(Drop(s, Len(t)), t)
    ELSE Err(s, "Tag")

\* digit1: one or more decimal digits.
digit1(s) ==
    LET n == PrefixLen(s, Digit)
    IN  IF n = 0 THEN Err(s, "Digit") ELSE Ok(Drop(s, n), Take(s, n))

\* is_not("\\\""): one or more characters other than backslash and quote.
is_not(s) ==
    LET n == PrefixLenNot(s, {"\\", "\""})
    IN  IF n = 0 THEN Err(s, "IsNot") ELSE Ok(Drop(s, n), Take(s, n))

\* The escapable parser of the string lexer: char('"').
escapable(s) == char("\"", s)

----------------------------------------------------------------------------
(* The combinators.  tuple, delimited and preceded run their parsers one  *)
(* after the other and return the first error, which the definitions below *)
(* write as IF ~r.ok THEN r; alt returns the first success and, when there *)
(* is none, the error of its last alternative (nom::error::Error keeps the *)
(* later error).                                                           *)

\* alt((r, s))
Or(r, s) == IF r.ok THEN r ELSE s

----------------------------------------------------------------------------
(* parse_string, lib.rs 21-28 *)

\* escaped(is_not("\\\""), '\\', char('"')) on `inp`, with i the part of inp
\* its loop has yet to look at.
RECURSIVE escaped_loop(_, _)
escaped_loop(inp, i) ==
    IF i = <<>> THEN Ok(<<>>, inp)
    ELSE LET n == is_not(i)
         IN  IF n.ok
             THEN IF n.rest = <<>> THEN Ok(<<>>, inp)
                  ELSE escaped_loop(inp, n.rest)
             ELSE IF Head(i) = "\\"
                  THEN IF 1 >= Len(i) THEN Err(inp, "Escaped")
                       ELSE LET e == escapable(Drop(i, 1))
                            IN  IF e.ok
                                THEN IF e.rest = <<>> THEN Ok(<<>>, inp)
                                     ELSE escaped_loop(inp, e.rest)
                                ELSE e
                  ELSE LET index == Len(inp) - Len(i)
                       IN  IF index = 0 THEN Err(inp, "Escaped")
                           ELSE Ok(Drop(inp, index), Take(inp, index))

escaped(inp) == escaped_loop(inp, inp)

\* delimited(char('"'), escaped(...), char('"'))
parse_string(inp) ==
    LET open == char("\"", inp)
        body == escaped(open.rest)
        close == char("\"", body.rest)
    IN  IF ~open.ok THEN open
        ELSE IF ~body.ok THEN body
        ELSE IF ~close.ok THEN close
        ELSE Ok(close.rest, body.val)

----------------------------------------------------------------------------
(* parse_number, lib.rs 30-43 *)

\* str::parse::<f64> on a text of the form d+ or d+.d+ : the decimal value,
\* as <<m, k>> for m / 10^k, with k as small as possible.  Two literals
\* denote the same f64 exactly when they have the same <<m, k>> (for the
\* literals of up to 15 significant digits, which f64 tells apart).
RECURSIVE Normal(_, _)
Normal(m, k) ==
    IF k > 0 /\ m % 10 = 0 THEN Normal(m \div 10, k - 1) ELSE <<m, k>>

RECURSIVE f64_scan(_, _, _, _)
f64_scan(s, m, k, dot) ==
    IF s = <<>> THEN Normal(m, k)
    ELSE IF Head(s) = "." THEN f64_scan(Tail(s), m, k, TRUE)
    ELSE f64_scan(Tail(s), 10 * m + DigitValue(Head(s)), IF dot THEN k + 1 ELSE k, dot)

f64_parse(s) == f64_scan(s, 0, 0, FALSE)

\* Whether str::parse::<f64> returns Ok on s, for the texts of digits and
\* points: at least one digit and at most one point.
f64_valid(s) ==
    /\ \E i \in 1..Len(s) : s[i] \in Digit
    /\ \A i \in 1..Len(s) : s[i] \in Digit \cup {"."}
    /\ Cardinality({i \in 1..Len(s) : s[i] = "."}) <= 1

\* recognize(p): the part of inp that p consumed.
recognize(inp, r) == Ok(r.rest, Take(inp, Len(inp) - Len(r.rest)))

\* recognize(tuple((integer_parser, char('.'), fractional_parser)))
decimal_form(inp) ==
    LET ip == digit1(inp)
        dot == char(".", ip.rest)
        fp == digit1(dot.rest)
    IN  IF ~ip.ok THEN ip
        ELSE IF ~dot.ok THEN dot
        ELSE IF ~fp.ok THEN fp
        ELSE recognize(inp, fp)

\* recognize(integer_parser_2)
integer_form(inp) ==
    LET ip == digit1(inp) IN IF ~ip.ok THEN ip ELSE recognize(inp, ip)

\* alt((decimal form, integer form))
number_parser(inp) == Or(decimal_form(inp), integer_form(inp))

\* The number that a run of digits denotes in base 10.
RECURSIVE IntValue(_)
IntValue(ds) ==
    IF ds = <<>> THEN 0
    ELSE 10 * IntValue(Take(ds, Len(ds) - 1)) + DigitValue(ds[Len(ds)])

RECURSIVE Pow10(_)
Pow10(n) == IF n = 0 THEN 1 ELSE 10 * Pow10(n - 1)

\* The number of characters of to_string() of a whole number.
RECURSIVE DecimalLen(_)
DecimalLen(n) == IF n < 10 THEN 1 ELSE 1 + DecimalLen(n \div 10)

\* integer + fractional / 10^(fractional.to_string().len())
Scaled(int, frac) ==
    Normal(int * Pow10(DecimalLen(frac)) + frac, DecimalLen(frac))

\* A parse_number that combines the values of its integer and fractional
\* parsers, scaling the fraction by the length of its to_string(), as the
\* fractional_parser of lib.rs 34-35 does.
parse_number_scaled(inp) ==
    LET ip == digit1(inp)
        dot == char(".", ip.rest)
        fp == digit1(dot.rest)
    IN  IF ~ip.ok THEN ip
        ELSE IF dot.ok /\ fp.ok
             THEN Ok(fp.rest, Scaled(IntValue(ip.val), IntValue(fp.val)))
        ELSE Ok(ip.rest, <<IntValue(ip.val), 0>>)

\* number.parse().unwrap(): the closure panics when the recognized text is
\* no float literal of Rust (here: digits with at most one point among them).
unwrap_f64(r) ==
    IF f64_valid(r.val) THEN Ok(r.rest, f64_parse(r.val)) ELSE Err(r.rest, "Panic")

parse_number(inp) ==
    LET r == number_parser(inp) IN IF ~r.ok THEN r ELSE unwrap_f64(r)

----------------------------------------------------------------------------
(* parse_boolean, parse_null, lib.rs 45-51 *)

\* map(r, |_| v)
Const(r, v) == IF r.ok THEN Ok(r.rest, v) ELSE r

parse_boolean(inp) ==
    Or(Const(tag(<<"t", "r", "u", "e">>, inp), TRUE),
       Const(tag(<<"f", "a", "l", "s", "e">>, inp), FALSE))

parse_null(inp) == Const(tag(<<"n", "u", "l", "l">>, inp), <<>>)

----------------------------------------------------------------------------
(* parse_value, parse_object, parse_array, lib.rs 53-90.  d is the depth   *)
(* of the enclosing parse_value call: the top-level call has depth 0 and a *)
(* call made by a composite has the depth of the composite's caller + 1.   *)

RECURSIVE parse_value(_, _), parse_object(_, _), parse_array(_, _)
RECURSIVE separated_list0(_, _, _, _), separated_loop(_, _, _, _, _, _, _)

\* The bookkeeping of a parse_value call that a composite (whose own input
\* is top) makes on i.
Called(r, i, top) == [r EXCEPT !.strict = r.strict /\ Len(i) < Len(top)]

\* The bookkeeping of a parser that ran after the parsers whose deepest
\* call was m and whose calls were strictly shorter or not (st).
After(r, m, st) ==
    [r EXCEPT !.maxd = Max(m, r.maxd), !.strict = st /\ r.strict]

\* A parse_array that looks at its [ without consuming it (peek).
open_bracket_peek(inp) ==
    LET r == char("[", multispace0(inp)) IN IF ~r.ok THEN r ELSE Ok(inp, r.val)

\* preceded(multispace0, char('{')) and its three siblings
open_brace(inp)    == char("{", multispace0(inp))
close_brace(inp)   == char("}", multispace0(inp))
open_bracket(inp)  == char("[", multispace0(inp))
close_bracket(inp) == char("]", multispace0(inp))

\* preceded(multispace0, char(',')), the separator of both lists
separator(inp) == char(",", multispace0(inp))

\* preceded(multispace0, char(':'))
colon(inp) == char(":", multispace0(inp))

\* The key of a pair.
parse_key(inp) == parse_string(inp)

\* The (key, value) pair that the closure of parse_object pushes.
Keyed(k, v) == IF v.ok THEN [v EXCEPT !.val = <<k.val, v.val>>] ELSE v

\* tuple((parse_string, preceded(multispace0, char(':')), parse_value)),
\* with the (key, _, value) triple already reduced to the pair.
pair_value(k, c, d, top) ==
    IF ~c.ok THEN c
    ELSE Keyed(k, Called(parse_value(c.rest, d + 1), c.rest, top))

pair_colon(k, d, top) ==
    IF ~k.ok THEN k ELSE pair_value(k, colon(k.rest), d, top)

parse_pair(inp, d, top) == pair_colon(parse_key(inp), d, top)

\* The element parser of a list: a pair in an object, a value in an array.
element(kind, inp, d, top) ==
    IF kind = "pair" THEN parse_pair(inp, d, top)
    ELSE Called(parse_value(inp, d + 1), inp, top)

\* The list ends at i with the elements res.
ListEnd(i, res, m, st) == After(Ok(i, res), m, st)

\* A list that takes the separator although no element follows it.
greedy_element(kind, i, res, d, top, m, st, sep, f) ==
    IF ~f.ok THEN ListEnd(sep.rest, res, Max(m, f.maxd), st /\ f.strict)
    ELSE separated_loop(kind, f.rest, Append(res, f.val), d, top,
                        Max(m, f.maxd), st /\ f.strict)

greedy_separator(kind, i, res, d, top, m, st, sep) ==
    IF ~sep.ok THEN ListEnd(i, res, m, st)
    ELSE greedy_element(kind, i, res, d, top, m, st, sep,
                        element(kind, sep.rest, d, top))

separated_loop_greedy(kind, i, res, d, top, m, st) ==
    greedy_separator(kind, i, res, d, top, m, st, separator(i))

\* separated_list0(separator, element), after its first element: an element
\* that fails ends the list with what was collected, at the input before
\* the separator; a separator that consumed nothing is an error.
loop_element(kind, i, res, d, top, m, st, f) ==
    IF ~f.ok THEN ListEnd(i, res, Max(m, f.maxd), st /\ f.strict)
    ELSE separated_loop(kind, f.rest, Append(res, f.val), d, top,
                        Max(m, f.maxd), st /\ f.strict)

loop_separator(kind, i, res, d, top, m, st, sep) ==
    IF ~sep.ok THEN ListEnd(i, res, m, st)
    ELSE IF Len(sep.rest) = Len(i)
         THEN After(Err(sep.rest, "SeparatedList"), m, st)
    ELSE loop_element(kind, i, res, d, top, m, st, element(kind, sep.rest, d, top))

separated_loop(kind, i, res, d, top, m, st) ==
    loop_separator(kind, i, res, d, top, m, st, separator(i))

\* separated_list1: the failure of the first element is the list's.
first_element1(kind, i, d, top, f) ==
    IF ~f.ok THEN f
    ELSE separated_loop(kind, f.rest, <<f.val>>, d, top, f.maxd, f.strict)

separated_list1(kind, i, d, top) ==
    first_element1(kind, i, d, top, element(kind, i, d, top))

\* separated_list0: a first element that fails gives the empty list.
first_element(kind, i, d, top, f) ==
    IF ~f.ok THEN ListEnd(i, <<>>, f.maxd, f.strict)
    ELSE separated_loop(kind, f.rest, <<f.val>>, d, top, f.maxd, f.strict)

separated_list0(kind, i, d, top) ==
    first_element(kind, i, d, top, element(kind, i, d, top))

\* The end of delimited(open, list, close): the closing delimiter, and the
\* value made of the list.
Closed(list, close, kind) ==
    IF ~list.ok THEN list
    ELSE IF ~close.ok THEN After(close, list.maxd, list.strict)
    ELSE [list EXCEPT !.rest = close.rest,
                      !.val = IF kind = "pair" THEN Object(list.val)
                              ELSE Array(list.val)]

object_close(list) == Closed(list, close_brace(list.rest), "pair")

array_close(list) == Closed(list, close_bracket(list.rest), "value")

object_list(open, inp, d) ==
    IF ~open.ok THEN open
    ELSE object_close(separated_list0("pair", open.rest, d, inp))

array_list(open, inp, d) ==
    IF ~open.ok THEN open
    ELSE array_close(separated_list0("value", open.rest, d, inp))

parse_object(inp, d) == object_list(open_brace(inp), inp, d)

parse_array(inp, d) == array_list(open_bracket(inp), inp, d)

\* map(parse_string, JsonValue::String) and its three siblings
string_value(r)  == IF r.ok THEN Ok(r.rest, String(r.val)) ELSE r
number_value(r)  == IF r.ok THEN Ok(r.rest, Number(r.val)) ELSE r
boolean_value(r) == IF r.ok THEN Ok(r.rest, Boolean(r.val)) ELSE r
null_value(r)    == IF r.ok THEN Ok(r.rest, Null) ELSE r

\* The four primitives, tried in this order after the two composites have
\* failed.
parse_primitive(i) ==
    Or(string_value(parse_string(i)),
    Or(number_value(parse_number(i)),
    Or(boolean_value(parse_boolean(i)),
       null_value(parse_null(i)))))

\* alt((parse_object, parse_array, ...)) of a parse_value call of depth d.
value_alt(d, o, a, p) ==
    IF o.ok THEN After(o, d, TRUE)
    ELSE IF a.ok THEN After(a, Max(d, o.maxd), o.strict)
    ELSE After(p, Max(d, Max(o.maxd, a.maxd)), o.strict /\ a.strict)

\* preceded(multispace0, alt((parse_object, parse_array, ...)))
value_at(i, d) ==
    value_alt(d, parse_object(i, d), parse_array(i, d), parse_primitive(i))

parse_value(inp, d) ==
    IF d > StackLimit
    THEN After(Err(inp, "StackOverflow"), d, TRUE)
    ELSE value_at(multispace0(inp), d)

\* preceded(multispace0, parse_value), lib.rs 92-94
parse_json(inp) == parse_value(multispace0(inp), 0)

----------------------------------------------------------------------------
(* Texts *)

Q == "\""
BS == "\\"

RECURSIVE Concat(_)
Concat(ss) == IF ss = <<>> THEN <<>> ELSE Head(ss) \o Concat(Tail(ss))

\* s is a text made of at most n of the given pieces.
MadeOf(s, pieces, n) ==
    \E k \in 0..n : \E ps \in [1..k -> pieces] : s = Concat(ps)

----------------------------------------------------------------------------
(* The calls.  A state is an input, the value the input was written from   *)
(* (when it was written from one, as the test of lib.rs 117-186 writes its *)
(* input from the value it expects), and the outcome of the one call made  *)
(* on the input.                                                           *)

NoCall == [fn |-> "none", out |-> Ok(<<>>, <<>>)]

NoValue == <<"None">>

Call(fn, out) ==
    /\ result = NoCall
    /\ result' = [fn |-> fn, out |-> out]
    /\ UNCHANGED <<input, expected>>

CallParseString  == Call("parse_string", parse_string(input))
CallParseNumber  == Call("parse_number", parse_number(input))
CallParseBoolean == Call("parse_boolean", parse_boolean(input))
CallParseNull    == Call("parse_null", parse_null(input))
CallParseValue   == Call("parse_value", parse_value(input, 0))
CallParseObject  == Call("parse_object", parse_object(input, 0))
CallParseArray   == Call("parse_array", parse_array(input, 0))
CallParseJson    == Call("parse_json", parse_json(input))

Next ==
    \/ CallParseString
    \/ CallParseNumber
    \/ CallParseBoolean
    \/ CallParseNull
    \/ CallParseValue
    \/ CallParseObject
    \/ CallParseArray
    \/ CallParseJson

\* The part of the input that a call's outcome leaves behind it.
Consumed == Take(input, Len(input) - Len(result.out.rest))

Called_(fns) == result.fn \in fns

----------------------------------------------------------------------------
(* Spec: inputs made of at most MaxTokens pieces of JSON text, well formed *)
(* or not: arrays, objects, composites in composites, number-like texts.   *)

MaxTokens == 4

Str1 == <<Q, "1", Q>>

ArrPieces == {<<"[">>, <<"]">>, <<",">>, <<" ">>, <<"1">>, Str1, <<Q>>}

ObjPieces == {<<"{">>, <<"}">>, Str1 \o <<":", "1">>, Str1, <<":">>, <<",">>,
              <<" ">>, <<"1">>}

NestPieces == {<<"[">>, <<"]">>, <<"{">> \o Str1 \o <<":">>, <<"}">>, <<"1">>, <<",">>}

NumPieces == {<<"-">>, <<"+">>, <<".">>, <<"1">>, <<" ">>}

Init ==
    /\ \E pieces \in {ArrPieces, ObjPieces, NestPieces, NumPieces} :
          MadeOf(input, pieces, MaxTokens)
    /\ expected = NoValue
    /\ result = NoCall

Spec == Init /\ [][Next]_vars

----------------------------------------------------------------------------
(* What a reader sees in a text, without parsing it *)

\* The position in s of the first quote that no backslash escapes, 0 when
\* there is none; pos is the position of the head of s.
RECURSIVE ClosingQuote(_, _)
ClosingQuote(s, pos) ==
    IF s = <<>> THEN 0
    ELSE IF Head(s) = Q THEN pos
    ELSE IF Head(s) = BS
         THEN IF Len(s) >= 2 THEN ClosingQuote(Drop(s, 2), pos + 2) ELSE 0
    ELSE ClosingQuote(Tail(s), pos + 1)

UnterminatedString(s) ==
    s # <<>> /\ Head(s) = Q /\ ClosingQuote(Tail(s), 1) = 0

Openers == {"[", "{"}
Closers == {"]", "}"}

Opener(c) == IF c = "]" THEN "[" ELSE "{"

\* A scan of s that keeps the open brackets (innermost first), whether it
\* is within a string, the last character outside strings and whitespace,
\* whether a bracket was closed wrongly (none open, another kind open, or
\* right after a comma), and the largest number of brackets open at once.
RECURSIVE Scan(_, _, _, _, _, _)
Scan(s, open, inStr, last, bad, deepest) ==
    IF s = <<>>
    THEN [open |-> open, inStr |-> inStr, bad |-> bad, deepest |-> deepest]
    ELSE LET c == Head(s)
         IN  IF inStr
             THEN IF c = BS /\ Len(s) >= 2
                  THEN Scan(Drop(s, 2), open, TRUE, last, bad, deepest)
                  ELSE Scan(Tail(s), open, c # Q, Q, bad, deepest)
             ELSE IF c = Q THEN Scan(Tail(s), open, TRUE, last, bad, deepest)
             ELSE IF c \in Openers
                  THEN Scan(Tail(s), <<c>> \o open, FALSE, c, bad,
                            Max(deepest, Len(open) + 1))
             ELSE IF c \in Closers
                  THEN IF open = <<>>
                       THEN Scan(Tail(s), open, FALSE, c, TRUE, deepest)
                       ELSE Scan(Tail(s), Tail(open), FALSE, c,
                                 bad \/ Head(open) # Opener(c) \/ last = ",",
                                 deepest)
             ELSE IF c \in Whitespace
                  THEN Scan(Tail(s), open, FALSE, last, bad, deepest)
             ELSE Scan(Tail(s), open, FALSE, c, bad, deepest)

Scanned(s) == Scan(s, <<>>, FALSE, "", FALSE, 0)

\* No string and no bracket of s is left open, and no bracket is closed
\* wrongly or right after a comma.
Complete(s) ==
    LET sc == Scanned(s) IN sc.open = <<>> /\ ~sc.inStr /\ ~sc.bad

\* The nesting depth of s: the largest number of brackets open at once.
NestingDepth(s) == Scanned(s).deepest

----------------------------------------------------------------------------
\* C7: a malformed input (an unterminated string, an unterminated object or
\* array, a comma right before the closing delimiter, or one of - + . where
\* a number must start) makes parse_string, parse_number, parse_object,
\* parse_array and parse_json return an error: a call that succeeds has
\* consumed a text in which every string and bracket is closed and no
\* bracket closes after a comma, and no call panics (the unwrap of
\* parse_number included).
C7_MalformedIsError ==
    /\ (Called_({"parse_string"}) /\ UnterminatedString(input))
          => ~result.out.ok
    /\ (Called_({"parse_json"}) /\ UnterminatedString(multispace0(input)))
          => ~result.out.ok
    /\ (Called_({"parse_string", "parse_object", "parse_array", "parse_json"})
          /\ result.out.ok)
          => Complete(Consumed)
    /\ (Called_({"parse_number"}) /\ input # <<>> /\ Head(input) \in {"-", "+", "."})
          => ~result.out.ok
    /\ (Called_({"parse_json"}) /\ multispace0(input) # <<>>
          /\ Head(multispace0(input)) \in {"-", "+", "."})
          => ~result.out.ok
    /\ result.out.ok \/ result.out.val[2] # "Panic"

\* parse_json was called on [1,] and returned an error.
C7_Witness ==
    /\ result.fn = "parse_json"
    /\ input = <<"[", "1", ",", "]">>
    /\ ~result.out.ok

----------------------------------------------------------------------------
\* C10: a call of parse_json (and of parse_value, parse_object, parse_array)
\* ends without exhausting the stack: every call of parse_value that a
\* composite makes is on an input strictly shorter than the composite's
\* own, and the depth of the nested parse_value calls never exceeds the
\* nesting depth of the input.
C10_RecursionBounded ==
    Called_({"parse_json", "parse_value", "parse_object", "parse_array"})
      => /\ result.out.strict
         /\ result.out.maxd <= NestingDepth(input)
         /\ result.out.maxd <= StackLimit

\* parse_json was called on [{"1":[ and went three composites deep.
C10_Witness ==
    /\ result.fn = "parse_json"
    /\ input = <<"[", "{">> \o Str1 \o <<":", "[">>
    /\ result.out.maxd = 3

----------------------------------------------------------------------------
(* C6: where the error of parse_object points *)

\* The places at which a reader of the object grammar (whitespace allowed
\* before a key) finds the first defect of the pairs that start at i: the
\* start of a malformed key or the place its lexer stopped at, the place a
\* missing colon is due (before or after the whitespace), the start of a
\* malformed value, the place a missing } is due, and for a comma that is
\* followed by } the comma as well.  Empty when there is no defect.
RECURSIVE PairDefects(_, _)
PairDefects(i, comma) ==
    LET ki == multispace0(i)
        k == parse_string(ki)
        c == colon(k.rest)
        v == parse_value(c.rest, 1)
        sep == separator(v.rest)
        cl == close_brace(v.rest)
    IN  IF ~k.ok
        THEN {ki, k.rest} \cup (IF ki # <<>> /\ Head(ki) = "}" THEN comma ELSE {})
        ELSE IF ~c.ok THEN {k.rest, c.rest}
        ELSE IF ~v.ok THEN {c.rest, v.rest}
        ELSE IF sep.ok THEN PairDefects(sep.rest, {multispace0(v.rest)})
        ELSE IF cl.ok THEN {}
        ELSE {v.rest, cl.rest}

Defects(s) ==
    LET open == open_brace(s)
    IN  IF ~open.ok \/ close_brace(open.rest).ok THEN {}
        ELSE PairDefects(open.rest, {})

----------------------------------------------------------------------------
(* SpecStr: the string lexer on every text of quotes, backslashes and two  *)
(* letters                                                                 *)

MaxStrLen == 6

StrAlphabet == {Q, BS, "a", "b"}

InitStr ==
    /\ \E k \in 0..MaxStrLen : input \in [1..k -> StrAlphabet]
    /\ expected = NoValue
    /\ result = NoCall

SpecStr == InitStr /\ [][Next]_vars

\* The input is a quote, a content without quote and backslash (possibly
\* empty), a quote, and whatever follows.
PlainLen(s) == PrefixLenNot(Tail(s), {Q, BS})

PlainString(s) ==
    /\ s # <<>> /\ Head(s) = Q
    /\ PlainLen(s) + 2 <= Len(s)
    /\ s[PlainLen(s) + 2] = Q

\* C2: on a quoted string whose content holds no quote and no backslash,
\* the empty content included, parse_string succeeds, returns the content
\* unchanged and leaves what follows the closing quote.
C2_PlainStringParsed ==
    (Called_({"parse_string"}) /\ PlainString(input))
      => /\ result.out.ok
         /\ result.out.val = SubSeq(input, 2, PlainLen(input) + 1)
         /\ result.out.rest = Drop(input, PlainLen(input) + 2)

\* The number of backslash-quote and backslash-backslash pairs of a content
\* made of such pairs and of other characters; -1 for a content that holds
\* a quote or a backslash outside such a pair.
RECURSIVE Pairs(_)
Pairs(c) ==
    IF c = <<>> THEN 0
    ELSE IF Head(c) = Q THEN -1
    ELSE IF Head(c) = BS
         THEN IF Len(c) >= 2 /\ c[2] \in {Q, BS}
              THEN LET n == Pairs(Drop(c, 2)) IN IF n < 0 THEN -1 ELSE n + 1
              ELSE -1
    ELSE Pairs(Tail(c))

\* The position of the quote that closes the string that s starts with.
StringEnd(s) == 1 + ClosingQuote(Tail(s), 1)

EscapedString(s) ==
    /\ s # <<>> /\ Head(s) = Q
    /\ ClosingQuote(Tail(s), 1) > 0
    /\ Pairs(SubSeq(s, 2, StringEnd(s) - 1)) >= 1

\* C3: on a quoted string whose content holds backslash-quote or
\* backslash-backslash pairs, parse_string succeeds, ends at the first
\* quote outside a pair, and returns the content with the pairs as they
\* are written.
C3_EscapedStringParsed ==
    (Called_({"parse_string"}) /\ EscapedString(input))
      => /\ result.out.ok
         /\ result.out.val = SubSeq(input, 2, StringEnd(input) - 1)
         /\ result.out.rest = Drop(input, StringEnd(input))

----------------------------------------------------------------------------
(* SpecNum: the number lexer on every text of three digits and the point   *)

MaxNumLen == 6

NumAlphabet == {"0", "1", "5", "."}

InitNum ==
    /\ \E k \in 0..MaxNumLen : input \in [1..k -> NumAlphabet]
    /\ expected = NoValue
    /\ result = NoCall

SpecNum == InitNum /\ [][Next]_vars

IsDigits(s) == s # <<>> /\ \A i \in 1..Len(s) : s[i] \in Digit

Points(s) == {i \in 1..Len(s) : s[i] = "."}

ThePoint(s) == CHOOSE i \in Points(s) : TRUE

IsDecimal(s) ==
    /\ Cardinality(Points(s)) = 1
    /\ IsDigits(Take(s, ThePoint(s) - 1))
    /\ IsDigits(Drop(s, ThePoint(s)))

\* The value a literal denotes, as <<m, k>> for m / 10^k with k smallest:
\* the integer part plus the fractional digits over 10^(their number).
Denoted(s) ==
    IF IsDigits(s) THEN <<IntValue(s), 0>>
    ELSE LET ip == Take(s, ThePoint(s) - 1)
             fp == Drop(s, ThePoint(s))
         IN  Normal(IntValue(ip) * Pow10(Len(fp)) + IntValue(fp), Len(fp))

\* C4: on an input that is wholly a literal d+ or d+.d+, parse_number
\* succeeds with an empty remainder and returns the value the literal
\* denotes in base 10, the leading zeros of the fraction counted.
C4_NumberDenoted ==
    (Called_({"parse_number"}) /\ (IsDigits(input) \/ IsDecimal(input)))
      => /\ result.out.ok
         /\ result.out.rest = <<>>
         /\ result.out.val = Denoted(input)

\* parse_number was called on 1.05 and returned 105/100.
C4_Witness ==
    /\ result.fn = "parse_number"
    /\ input = <<"1", ".", "0", "5">>
    /\ result.out.ok
    /\ result.out.val = <<105, 2>>

----------------------------------------------------------------------------
(* SpecWs: the dispatcher and the entry point on every text of the four    *)
(* whitespace characters, a digit and the brackets                         *)

MaxWsLen == 5

WsAlphabet == Whitespace \cup {"1", "[", "]"}

InitWs ==
    /\ \E k \in 0..MaxWsLen : input \in [1..k -> WsAlphabet]
    /\ expected = NoValue
    /\ result = NoCall

SpecWs == InitWs /\ [][Next]_vars

SameOutcome(a, b) ==
    /\ a.ok = b.ok
    /\ a.ok => (a.val = b.val /\ a.rest = b.rest)

Again(fn, s) == IF fn = "parse_value" THEN parse_value(s, 0) ELSE parse_json(s)

\* C9: parse_value and parse_json have on w followed by s, for w any run of
\* spaces, tabs, newlines and carriage returns, the outcome they have on s:
\* the same value and remainder, or a failure both times.
C9_LeadingWhitespaceIgnored ==
    Called_({"parse_value", "parse_json"})
      => \A k \in 0..PrefixLen(input, {" ", "\t", "\n", "\r"}) :
            SameOutcome(result.out, Again(result.fn, Drop(input, k)))

\* parse_value was called on newline, tab, carriage return, space, 1 and
\* returned the number 1.
C9_Witness ==
    /\ result.fn = "parse_value"
    /\ input = <<"\n", "\t", "\r", " ", "1">>
    /\ result.out.ok
    /\ result.out.val = Number(<<1, 0>>)
    /\ result.out.rest = <<>>

----------------------------------------------------------------------------
(* SpecDoc: inputs written from a value, with the value they were written  *)
(* from: arrays, objects, and a value followed by other text               *)

MaxElems == 2
MaxPairs == 2
MaxTail == 2

Item(text, val) == [text |-> text, val |-> val]

One == Number(<<1, 0>>)

StrA == <<Q, "a", Q>>

ElemItems ==
    << Item(<<"1">>, One),
       Item(<<"2", ".", "5">>, Number(<<25, 1>>)),
       Item(<<"t", "r", "u", "e">>, Boolean(TRUE)),
       Item(<<"f", "a", "l", "s", "e">>, Boolean(FALSE)),
       Item(<<"n", "u", "l", "l">>, Null),
       Item(StrA, String(<<"a">>)),
       Item(<<Q, Q>>, String(<<>>)),
       Item(<<"[", "]">>, Array(<<>>)),
       Item(<<"{">> \o StrA \o <<":", "1", "}">>, Object(<< <<<<"a">>, One>> >>)) >>

PairItems ==
    << Item(<<"1">>, One),
       Item(<<"t", "r", "u", "e">>, Boolean(TRUE)),
       Item(StrA, String(<<"a">>)),
       Item(<<"[", "1", "]">>, Array(<<One>>)) >>

Keys == {"a", "b"}

Pads == {<<>>, <<" ">>, <<"\n", "\t">>}

TailAlphabet == {" ", "x", ",", "]", "}"}

\* [, then the elements, each between the paddings wl and wr, with commas
\* between them, then ]; the padding alone when there is no element.
RECURSIVE Joined(_, _)
Joined(texts, sep) ==
    IF texts = <<>> THEN <<>>
    ELSE IF Len(texts) = 1 THEN texts[1]
    ELSE texts[1] \o sep \o Joined(Tail(texts), sep)

ArrayText(items, wl, wr) ==
    IF items = <<>> THEN <<"[">> \o wl \o <<"]">>
    ELSE <<"[">> \o Joined([i \in 1..Len(items) |-> wl \o items[i].text \o wr], <<",">>)
           \o <<"]">>

\* {, then the pairs "key":value with the padding wc after the colon and
\* the padding wb, a comma and the padding wa between two pairs, then };
\* the padding wa alone when there is no pair.
ObjectText(keys, items, wb, wa, wc) ==
    IF keys = <<>> THEN <<"{">> \o wa \o <<"}">>
    ELSE <<"{">>
           \o Joined([i \in 1..Len(keys) |->
                        <<Q, keys[i], Q, ":">> \o wc \o items[i].text],
                     wb \o <<",">> \o wa)
           \o <<"}">>

ArrayDoc ==
    \E n \in 0..MaxElems : \E f \in [1..n -> 1..Len(ElemItems)] :
    \E wl \in Pads, wr \in Pads :
        LET items == [i \in 1..n |-> ElemItems[f[i]]]
        IN  /\ input = ArrayText(items, wl, wr)
            /\ expected = Array([i \in 1..n |-> items[i].val])

ObjectDoc ==
    \E n \in 0..MaxPairs : \E ks \in [1..n -> Keys] :
    \E f \in [1..n -> 1..Len(PairItems)] :
    \E wb \in Pads, wa \in Pads, wc \in Pads :
        LET items == [i \in 1..n |-> PairItems[f[i]]]
        IN  /\ input = ObjectText(ks, items, wb, wa, wc)
            /\ expected = Object([i \in 1..n |-> << <<ks[i]>>, items[i].val >>])

TailDoc ==
    \E lead \in Pads : \E e \in 1..Len(ElemItems) :
    \E k \in 0..MaxTail : \E tail \in [1..k -> TailAlphabet] :
        /\ input = lead \o ElemItems[e].text \o tail
        /\ expected = ElemItems[e].val

InitDoc ==
    /\ ArrayDoc \/ ObjectDoc \/ TailDoc
    /\ result = NoCall

SpecDoc == InitDoc /\ [][Next]_vars

\* C1: on an object text whose pairs are separated by optional whitespace,
\* a comma and optional whitespace, parse_object and parse_json succeed
\* and return the Object of the source pairs in source order, duplicate
\* keys kept.
C1_ObjectPairsInOrder ==
    (Called_({"parse_object", "parse_json"}) /\ expected[1] = "Object")
      => result.out.ok /\ result.out.val = expected

\* C5: on an array text (optional whitespace around each element, commas
\* between them) parse_array and parse_json succeed and return the Array
\* of the elements' values in source order, whatever the variants of the
\* elements; [] and {} with or without whitespace inside give no element,
\* no pair.
C5_ArrayElementsInOrder ==
    /\ (Called_({"parse_array", "parse_json"}) /\ expected[1] = "Array")
          => result.out.ok /\ result.out.val = expected
    /\ (Called_({"parse_object", "parse_json"}) /\ expected = Object(<<>>))
          => result.out.ok /\ result.out.val = expected

\* C8: parse_json succeeds whenever the input begins, after its leading
\* whitespace, with a complete valid value, whatever follows the value; its
\* remainder is the suffix of the input after what it consumed, and what it
\* consumed does not end with whitespace.
C8_TrailingInputTolerated ==
    (Called_({"parse_json"}) /\ expected # NoValue)
      => /\ result.out.ok
         /\ result.out.rest = Drop(input, Len(Consumed))
         /\ Consumed # <<>>
         /\ Consumed[Len(Consumed)] \notin Whitespace

====
